---------------------------- MODULE Spec2Model ----------------------------
(***************************************************************************)
(* Model of the query routing and evidence-assembly pipeline of the        *)
(* Python EOL / deprecation assistant (QAEngine and its collaborators).    *)
(*                                                                         *)
(* Python strings are modelled as sequences of one-character strings, so   *)
(* that lower(), strip(), substring tests, the regular expressions and the *)
(* f-string compositions are computed as the code computes them.           *)
(***************************************************************************)
EXTENDS Integers, Sequences, FiniteSets, TLC

(***************************************************************************)
(* Characters and the str methods the engine uses                          *)
(***************************************************************************)
UpperChars == <<"A","B","C","D","E","F","G","H","I","J","K","L","M","N","O","P","Q","R","S","T","U","V","W","X","Y","Z">>
LowerChars == <<"a","b","c","d","e","f","g","h","i","j","k","l","m","n","o","p","q","r","s","t","u","v","w","x","y","z">>
DigitChars == <<"0","1","2","3","4","5","6","7","8","9">>

Range(s) == { s[i] : i \in DOMAIN s }

UpperSet == Range(UpperChars)
LowerSet == Range(LowerChars)
DigitSet == Range(DigitChars)
\* \s of the re module
SpaceSet == {" ", "\n", "\t"}
\* \w of the re module: \b is the border between \w and \W
WordSet == UpperSet \cup LowerSet \cup DigitSet \cup {"_"}
\* the complement of [^a-z0-9_\.]
NeedleSet == LowerSet \cup DigitSet \cup {"_", "."}

\* str.lower() on one character
LowerChar(c) ==
    IF c \in UpperSet
    THEN LowerChars[CHOOSE i \in DOMAIN UpperChars : UpperChars[i] = c]
    ELSE c

\* str.lower()
Lower(s) == [i \in DOMAIN s |-> LowerChar(s[i])]

\* s[i:] starts with lit  (1-based i)
StartsAt(lit, s, i) ==
    /\ i >= 1
    /\ i + Len(lit) - 1 <= Len(s)
    /\ \A j \in 1..Len(lit) : s[i + j - 1] = lit[j]

\* Python's  sub in s
Contains(sub, s) == \E i \in 1..(Len(s) - Len(sub) + 1) : StartsAt(sub, s, i)

\* the index just past the longest run of characters of set cs starting at i
RunEnd(s, i, cs) ==
    CHOOSE k \in i..(Len(s) + 1) :
        /\ \A j \in i..(k - 1) : s[j] \in cs
        /\ (k = Len(s) + 1 \/ s[k] \notin cs)

\* str.lstrip(), str.rstrip(), str.strip()
LStrip(s) == SubSeq(s, RunEnd(s, 1, SpaceSet), Len(s))

RStrip(s) ==
    LET e == CHOOSE k \in 0..Len(s) :
                 /\ \A j \in (k + 1)..Len(s) : s[j] \in SpaceSet
                 /\ (k = 0 \/ s[k] \notin SpaceSet)
    IN  SubSeq(s, 1, e)

Strip(s) == RStrip(LStrip(s))

\* "".join(parts)
RECURSIVE Concat(_)
Concat(parts) ==
    IF parts = <<>> THEN <<>> ELSE Head(parts) \o Concat(Tail(parts))

\* sep.join(parts)
RECURSIVE Join(_, _)
Join(sep, parts) ==
    IF parts = <<>> THEN <<>>
    ELSE IF Len(parts) = 1 THEN Head(parts)
    ELSE Head(parts) \o sep \o Join(sep, Tail(parts))

\* str.split(): the maximal runs of non-whitespace characters, in order
RECURSIVE Split(_)
Split(s) ==
    LET b == RunEnd(s, 1, SpaceSet)
    IN  IF b > Len(s) THEN <<>>
        ELSE LET e == CHOOSE k \in b..(Len(s) + 1) :
                          /\ \A j \in b..(k - 1) : s[j] \notin SpaceSet
                          /\ (k = Len(s) + 1 \/ s[k] \in SpaceSet)
             IN  <<SubSeq(s, b, e - 1)>> \o Split(SubSeq(s, e, Len(s)))

\* str(n) for a natural number
RECURSIVE Str(_)
Str(n) ==
    IF n < 10 THEN <<DigitChars[n + 1]>>
    ELSE Str(n \div 10) \o <<DigitChars[(n % 10) + 1]>>

\* Python's None: a value no string is equal to
None == <<"<None>">>

\*  x or default  for an Optional[str]
Or(x, default) == IF x = None \/ x = <<>> THEN default ELSE x

\* how an f-string renders an Optional[str]
Fmt(x) == IF x = None THEN <<"N","o","n","e">> ELSE x

SeqMin(S) == CHOOSE x \in S : \A y \in S : x <= y

\* the sequences over S of length at most n
SeqsUpTo(S, n) == UNION { [1..k -> S] : k \in 0..n }

(***************************************************************************)
(* src/models.py: the records, and the pools the inputs are drawn from     *)
(***************************************************************************)
DeprecationInfo(feature, version_deprecated, version_removed, module, description, url) ==
    [feature |-> feature, version_deprecated |-> version_deprecated,
     version_removed |-> version_removed, module |-> module,
     description |-> description, replacement |-> None, url |-> url]

JiraTicket(key, summary, status, description, assignee) ==
    [key |-> key, summary |-> summary, status |-> status,
     description |-> description, assignee |-> assignee]

BacklogTask(title, description, source_file) ==
    [title |-> title, description |-> description, source_file |-> source_file]

\* catalog records as the scraper produces them
DepSsl ==
    DeprecationInfo(<<"s","s","l">>, <<"3",".","1","2">>, <<"3",".","1","5">>, None, <<"o","l","d"," ","s","s","l"," ","a","p","i">>, <<"u","#","a">>)
DepSmtpd ==
    DeprecationInfo(<<"s","m","t","p","d">>, <<>>, <<"F","u","t","u","r","e">>, <<"C"," ","A","P","I">>, <<"u","s","e"," ","s","s","l">>, <<"u","#","b">>)
DepCoroutine ==
    DeprecationInfo(<<"a","s","y","n","c","i","o",".","c","o","r","o","u","t","i","n","e">>, <<"3",".","8">>, None, <<"a","s","y","n","c","i","o">>, <<"d","e","c","o","r","a","t","o","r">>, <<"u">>)

\* Optional[JiraTicket]: the value get_ticket returns for None
NoTicket == JiraTicket(None, None, None, None, None)

\* the number of hits _find_deprecations keeps
MaxHits == 10
\* the longest catalog of the matcher's specification
MaxCatalog == 11

\* the catalogs of the matcher's specification
LongCatalogs == SeqsUpTo({DepSsl, DepSmtpd}, MaxCatalog)
\* the catalogs the scraper may hand to the engine
Catalogs == { <<DepSsl, DepSmtpd>>, <<DepCoroutine>> }

\* the fixture of JiraConnector.get_tickets
MockTickets ==
    << JiraTicket(<<"S","C","R","U","M","-","1">>, <<"D","e","p","r","e","c","a","t","e"," ","o","l","d"," ","C"," ","A","P","I">>, <<"T","e","s","t","i","n","g">>, <<"T","a","s","k"," ","f","o","r"," ","S","C","R","U","M","-","1">>, None),
       JiraTicket(<<"S","C","R","U","M","-","6">>, <<"U","p","d","a","t","e"," ","d","o","c","u","m","e","n","t","a","t","i","o","n"," ","f","o","r"," ","c","t","y","p","e","s">>, <<"D","o","n","e">>, <<"T","a","s","k"," ","f","o","r"," ","S","C","R","U","M","-","6">>, None),
       JiraTicket(<<"S","C","R","U","M","-","3">>, <<"A","n","o","t","h","e","r"," ","t","e","s","t","i","n","g"," ","t","a","s","k">>, <<"T","e","s","t","i","n","g">>, <<"T","a","s","k"," ","f","o","r"," ","S","C","R","U","M","-","3">>, None) >>

\* the fixture of GDriveConnector.get_backlog_tasks
MockBacklog ==
    << BacklogTask(<<"D","e","p","r","e","c","a","t","e"," ","o","l","d"," ","S","S","L">>, <<"R","e","m","o","v","e"," ","S","S","L"," ","v","2","/","v","3"," ","s","u","p","p","o","r","t">>, <<"s","s","l","_","n","o","t","e","s",".","t","x","t">>),
       BacklogTask(<<"N","e","w"," ","d","e","p","r","e","c","a","t","i","o","n"," ","f","o","r"," ","e","m","a","i","l"," ","m","o","d","u","l","e">>, <<"D","e","p","r","e","c","a","t","e"," ","o","l","d"," ","e","m","a","i","l"," ","f","o","r","m","a","t","s">>, <<"e","m","a","i","l","_","n","o","t","e","s",".","t","x","t">>) >>

\* issues of the live tracker
LiveTicketPool ==
    { JiraTicket(<<"S","C","R","U","M","-","4","2">>, <<"d","e","p","r","e","c","a","t","e"," ","o","l","d"," ","s","s","l">>, <<"T","e","s","t","i","n","g">>, <<>>, <<"A","n","n">>),
      JiraTicket(<<"S","C","R","U","M","-","7">>, <<"R","e","m","o","v","e"," ","s","m","t","p","d">>, <<"T","o"," ","D","o">>, <<"d">>, None) }

\* files of the live backlog folder, as (name, content)
LiveFilePool ==
    { BacklogTask(<<"D","e","p","r","e","c","a","t","e"," ","o","l","d"," ","S","S","L">>, <<"c">>, <<"D","e","p","r","e","c","a","t","e"," ","o","l","d"," ","S","S","L">>),
      BacklogTask(<<"R","e","m","o","v","e"," ","a","s","y","n","c","i","o",".","c","o","r","o","u","t","i","n","e"," ","s","u","p","p","o","r","t">>, <<>>, <<"R","e","m","o","v","e"," ","a","s","y","n","c","i","o",".","c","o","r","o","u","t","i","n","e"," ","s","u","p","p","o","r","t">>) }

\* the most issues the live tracker holds, the most files the live folder holds
MaxTickets == 1
MaxFiles == 1

(***************************************************************************)
(* The questions                                                           *)
(***************************************************************************)
\* a question is the concatenation of the chosen fragments, in this order
QuestionFragments ==
    << <<"h","o","w"," ","m","a","n","y"," ">>, <<"d","e","p","r","e","c","a","t","e","d"," ","s","m","t","p","d"," ">>, <<"S","C","R","U","M","-">>, <<"4","2"," ">>, <<"t","e","s","t","i","n","g">>,
       <<"P","y","t","h","o","n"," ","3",".","1">>, <<" ","t","i","c","k","e","t","s">> >>

Question(chosen) ==
    Concat([i \in 1..Cardinality(chosen) |->
              QuestionFragments[CHOOSE k \in chosen :
                  Cardinality({j \in chosen : j < k}) = i - 1]])

Questions == { Question(c) : c \in SUBSET DOMAIN QuestionFragments }

\* the questions of the matcher's specification
MatchQuestions ==
    { <<"P","e","n","d","i","n","g"," ","r","e","m","o","v","a","l"," ","i","n"," ","P","y","t","h","o","n"," ","3",".","1","5">>,
      <<"w","h","a","t"," ","i","s"," ","p","e","n","d","i","n","g"," ","r","e","m","o","v","a","l"," ","i","n"," ","p","y","t","h","o","n","3",".","1","?">>,
      <<"p","e","n","d","i","n","g"," ","r","e","m","o","v","a","l"," ","i","n"," ","p","y","t","h","o","n"," ","3",".","x">>,
      <<"s","s","l">>,
      <<"S","M","T","P","D"," ","o","r"," ","s","s","l","?">>,
      <<"s","s","l"," ","r","e","m","o","v","a","l",","," ","s","s","l"," ","e","o","l">>,
      <<>> }

(***************************************************************************)
(* QAEngine._find_deprecations                                             *)
(***************************************************************************)
\* RemovalSearch with \d in place of \d+
RemovalSearchOneDigit(q) ==
    LET lit == <<"p","e","n","d","i","n","g"," ","r","e","m","o","v","a","l"," ","i","n"," ","p","y","t","h","o","n">>
        ver(i) == RunEnd(q, i + Len(lit), SpaceSet)
        ok(i) == /\ StartsAt(lit, q, i)
                 /\ StartsAt(<<"3",".">>, q, ver(i))
                 /\ ver(i) + 2 <= Len(q)
                 /\ q[ver(i) + 2] \in DigitSet
        starts == { i \in 1..Len(q) : ok(i) }
    IN  IF starts = {} THEN None
        ELSE LET v == ver(SeqMin(starts))
             IN  SubSeq(q, v, v + 2)

\* re.search(r"pending removal in python\s*(3\.\d+)", q): group 1 of the
\* leftmost match, or None
RemovalSearch(q) ==
    LET lit == <<"p","e","n","d","i","n","g"," ","r","e","m","o","v","a","l"," ","i","n"," ","p","y","t","h","o","n">>
        ver(i) == RunEnd(q, i + Len(lit), SpaceSet)
        ok(i) == /\ StartsAt(lit, q, i)
                 /\ StartsAt(<<"3",".">>, q, ver(i))
                 /\ ver(i) + 2 <= Len(q)
                 /\ q[ver(i) + 2] \in DigitSet
        starts == { i \in 1..Len(q) : ok(i) }
    IN  IF starts = {} THEN None
        ELSE LET v == ver(SeqMin(starts))
             IN  SubSeq(q, v, RunEnd(q, v + 2, DigitSet) - 1)

\* re.sub(r"[^a-z0-9_\.]+", " ", q): every maximal run of other characters
\* becomes one space
RECURSIVE SubNeedle(_)
SubNeedle(q) ==
    IF q = <<>> THEN <<>>
    ELSE IF Head(q) \in NeedleSet THEN <<Head(q)>> \o SubNeedle(Tail(q))
    ELSE LET e == RunEnd(q, 1, Range(q) \ NeedleSet)
         IN  <<" ">> \o SubNeedle(SubSeq(q, e, Len(q)))

StopWords == { <<"d","e","p","r","e","c","a","t","i","o","n">>, <<"d","e","p","r","e","c","a","t","e","d">>, <<"r","e","m","o","v","e">>, <<"r","e","m","o","v","a","l">>, <<"e","o","l">> }

\* tokens of _find_deprecations
Tokens(q) ==
    LET needle == Strip(SubNeedle(q))
    IN  SelectSeq(Split(needle), LAMBDA t : t \notin StopWords)

\* score(d) of _find_deprecations
RECURSIVE score(_, _)
score(d, tokens) ==
    IF tokens = <<>> THEN 0
    ELSE LET t == Head(tokens)
             hay == Lower(Join(<<" ">>, << Or(d.feature, <<>>), Or(d.module, <<>>),
                                       Or(d.description, <<>>) >>))
             s1 == IF Contains(t, hay) THEN 2 ELSE 0
             s2 == IF d.feature # <<>> /\ Contains(t, Lower(d.feature)) THEN 3 ELSE 0
         IN  (IF t = <<>> THEN 0 ELSE s1 + s2) + score(d, Tail(tokens))

\* sorted(range, key=key, reverse=True): the positions 1..n by decreasing
\* key; sorted is stable, also with reverse=True
RECURSIVE InsertDesc(_, _, _)
InsertDesc(ranked, i, key) ==
    IF ranked = <<>> THEN <<i>>
    ELSE IF key[Head(ranked)] >= key[i]
         THEN <<Head(ranked)>> \o InsertDesc(Tail(ranked), i, key)
         ELSE <<i>> \o ranked

RECURSIVE SortedDescFrom(_, _, _)
SortedDescFrom(ranked, i, key) ==
    IF i > Len(key) THEN ranked
    ELSE SortedDescFrom(InsertDesc(ranked, i, key), i + 1, key)

\* SortedReverse as sorted(...)[::-1] would be: equal keys in reverse order
SortedThenReversed(key) ==
    LET up == SortedDescFrom(<<>>, 1, [i \in DOMAIN key |-> 0 - key[i]])
    IN  [i \in DOMAIN up |-> up[Len(up) + 1 - i]]

SortedReverse(key) == SortedDescFrom(<<>>, 1, key)

\* seq[:n]
Take(seq, n) == SubSeq(seq, 1, IF Len(seq) < n THEN Len(seq) ELSE n)

\* the result before _find_deprecations has run
NoMatch == [mode |-> "none", target |-> None, hits |-> <<>>]

\* _find_deprecations(query) on self.deprecations; the hits are the matched
\* records of the catalog, held as their positions in it
_find_deprecations(query, deprecations) ==
    LET q == Lower(query)
        target == RemovalSearch(q)
    IN  IF target # None
        THEN [mode |-> "REMOVAL_LIST", target |-> target,
              hits |-> SelectSeq([i \in DOMAIN deprecations |-> i],
                          LAMBDA i : Lower(Or(deprecations[i].version_removed, <<>>))
                                       = Lower(target))]
        ELSE LET tokens == Tokens(q)
                 key == [i \in DOMAIN deprecations |-> score(deprecations[i], tokens)]
                 ranked == SortedReverse(key)
             IN  [mode |-> "FEATURE_SEARCH", target |-> None,
                  hits |-> Take(SelectSeq(ranked, LAMBDA i : key[i] > 0), MaxHits)]

(***************************************************************************)
(* QAEngine._format_deprecations_context                                   *)
(***************************************************************************)
RemovalEntry(d) ==
    RStrip(Concat(<< <<"-"," ">>, Fmt(d.feature), <<" ","|"," ","D","e","p","r","e","c","a","t","e","d",":"," ">>,
                     Or(d.version_deprecated, <<"N","/","A">>), <<" ","|"," ","M","o","d","u","l","e",":"," ">>,
                     Or(d.module, <<"N","/","A">>), <<"\n"," "," ">>, Or(d.description, <<>>),
                     <<"\n"," "," ">>, Or(d.url, <<>>) >>))

SearchEntry(d) ==
    RStrip(Concat(<< <<"-"," ">>, Fmt(d.feature), <<" ","(","D","e","p","r","e","c","a","t","e","d",":"," ">>,
                     Or(d.version_deprecated, <<"N","/","A">>), <<","," ","R","e","m","o","v","e","d",":"," ">>,
                     Or(d.version_removed, <<"N","/","A">>), <<")">>, <<" ","|"," ","M","o","d","u","l","e",":"," ">>,
                     Or(d.module, <<"N","/","A">>), <<"\n"," "," ">>, Or(d.description, <<>>),
                     <<"\n"," "," ">>, Or(d.url, <<>>) >>))

_format_deprecations_context(m, deprecations) ==
    IF m.mode = "REMOVAL_LIST"
    THEN IF m.hits = <<>>
         THEN Concat(<< <<"N","o"," ","d","e","p","r","e","c","a","t","i","o","n","s"," ","f","o","u","n","d"," ","p","e","n","d","i","n","g"," ","r","e","m","o","v","a","l"," ","i","n"," ","P","y","t","h","o","n"," ">>,
                        Fmt(m.target), <<".">> >>)
         ELSE Concat(<< <<"D","e","p","r","e","c","a","t","i","o","n","s"," ","p","e","n","d","i","n","g"," ","r","e","m","o","v","a","l"," ","i","n"," ","P","y","t","h","o","n"," ">>, Fmt(m.target), <<":","\n">>,
                        Join(<<"\n">>, [i \in DOMAIN m.hits |->
                                         RemovalEntry(deprecations[m.hits[i]])]) >>)
    ELSE IF m.hits = <<>>
         THEN <<"N","o"," ","m","a","t","c","h","i","n","g"," ","d","e","p","r","e","c","a","t","i","o","n","s"," ","f","o","u","n","d"," ","i","n"," ","t","h","e"," ","o","f","f","i","c","i","a","l"," ","l","i","s","t",".">>
         ELSE <<"M","a","t","c","h","i","n","g"," ","d","e","p","r","e","c","a","t","i","o","n","s",":","\n">> \o
              Join(<<"\n">>, [i \in DOMAIN m.hits |-> SearchEntry(deprecations[m.hits[i]])])

(***************************************************************************)
(* src/ai/llm_client.py and adk_app/agent.py: the Text Generator clients   *)
(***************************************************************************)
LLMKinds == {"OllamaClient", "GeminiClient", "MockLLMClient", "ConcreteLLMClient"}

Returned(value) == [raised |-> FALSE, value |-> value]
Raised == [raised |-> TRUE, value |-> None]

\* what the backend does with one request: it answers with a text, or the
\* request fails (transport, auth, timeout) with an error
Answer(text) == [fault |-> FALSE, text |-> text]
Fault(error) == [fault |-> TRUE, text |-> error]

OllamaClient_generate_response(prompt, backend) ==
    IF backend.fault
    THEN Returned(<<"E","r","r","o","r"," ","c","a","l","l","i","n","g"," ","O","l","l","a","m","a",":"," ">> \o backend.text)
    ELSE Returned(backend.text)

GeminiClient_generate_response(prompt, backend) ==
    IF backend.fault
    THEN Returned(<<"E","r","r","o","r"," ","c","a","l","l","i","n","g"," ","G","e","m","i","n","i",":"," ">> \o backend.text)
    ELSE Returned(backend.text)

MockLLMClient_generate_response(prompt, backend) ==
    IF Contains(<<"I","N","T","E","N","T",":">>, prompt) \/ Contains(<<"C","l","a","s","s","i","f","y">>, prompt)
    THEN Returned(<<"G","E","N","E","R","A","L">>)
    ELSE Returned(<<"I"," ","a","m"," ","a"," ","m","o","c","k"," ","L","L","M"," ","r","e","s","p","o","n","s","e",".">>)

ConcreteLLMClient_generate_response(prompt, backend) ==
    IF backend.fault THEN Raised ELSE Returned(Strip(backend.text))

generate_response(kind, prompt, backend) ==
    CASE kind = "OllamaClient" -> OllamaClient_generate_response(prompt, backend)
      [] kind = "GeminiClient" -> GeminiClient_generate_response(prompt, backend)
      [] kind = "MockLLMClient" -> MockLLMClient_generate_response(prompt, backend)
      [] kind = "ConcreteLLMClient" -> ConcreteLLMClient_generate_response(prompt, backend)

\* what the backends may answer to the classification request
ClassifyReplies ==
    { <<"D","E","P","R","E","C","A","T","I","O","N","_","I","N","F","O">>, <<"D","E","P","R","E","C","A","T","I","O","N","_","G","A","P">>, <<" ","J","I","R","A","_","L","I","S","T","\n">>, <<"J","I","R","A","_","D","E","T","A","I","L">>,
      <<"J","I","R","A","_","C","O","U","N","T">>, <<"B","A","C","K","L","O","G","_","L","I","S","T">>, <<"I","n","t","e","n","t",":"," ","B","A","C","K","L","O","G","_","P","I","C","K","U","P">>, <<"G","E","N","E","R","A","L">>,
      <<"J","I","R","A","_","L","I","S","T"," ","o","r"," ","D","E","P","R","E","C","A","T","I","O","N","_","I","N","F","O">>, <<"j","i","r","a","_","l","i","s","t">>, <<>> }
\* and to the final request
FinalReplies == { <<" ","3",".","1","5",".","\n">> }
\* the text of a failed request's exception
Errors == { <<"t","i","m","e","d"," ","o","u","t">> }

\* the backend never sees the requests of the mock client
Backends(kind, replies) ==
    IF kind = "MockLLMClient" THEN { Answer(<<>>) }
    ELSE { Answer(t) : t \in replies } \cup { Fault(e) : e \in Errors }

(***************************************************************************)
(* QAEngine.answer_query, step 1: the intent                               *)
(***************************************************************************)
DEPRECATION_INFO == <<"D","E","P","R","E","C","A","T","I","O","N","_","I","N","F","O">>
DEPRECATION_GAP == <<"D","E","P","R","E","C","A","T","I","O","N","_","G","A","P">>
JIRA_LIST == <<"J","I","R","A","_","L","I","S","T">>
JIRA_DETAIL == <<"J","I","R","A","_","D","E","T","A","I","L">>
JIRA_COUNT == <<"J","I","R","A","_","C","O","U","N","T">>
BACKLOG_LIST == <<"B","A","C","K","L","O","G","_","L","I","S","T">>
BACKLOG_PICKUP == <<"B","A","C","K","L","O","G","_","P","I","C","K","U","P">>
GENERAL == <<"G","E","N","E","R","A","L">>

valid_intents ==
    << DEPRECATION_INFO, DEPRECATION_GAP, JIRA_LIST, JIRA_DETAIL, JIRA_COUNT,
       BACKLOG_LIST, BACKLOG_PICKUP, GENERAL >>

ClassifyPrompt(q) == Concat(<< <<"C","l","a","s","s","i","f","y"," ","t","h","i","s"," ","q","u","e","r","y",":"," ","'">>, q, <<"'">> >>)

\* the loop over valid_intents: the first name of the list that occurs in
\* the stripped response
CleanIntent(response) ==
    LET stripped == Strip(response)
        found == { i \in DOMAIN valid_intents : Contains(valid_intents[i], stripped) }
    IN  [intent |-> IF found = {} THEN stripped ELSE valid_intents[SeqMin(found)],
         found_intent |-> found # {}]

\* re.search(r"\bpython\s*3\.\d+\b", msg_lower)
PythonVersionSearch(s) ==
    \E i \in 1..Len(s) :
        /\ i = 1 \/ s[i - 1] \notin WordSet
        /\ StartsAt(<<"p","y","t","h","o","n">>, s, i)
        /\ LET v == RunEnd(s, i + 6, SpaceSet)
           IN  /\ StartsAt(<<"3",".">>, s, v)
               /\ v + 2 <= Len(s)
               /\ s[v + 2] \in DigitSet
               /\ LET e == RunEnd(s, v + 2, DigitSet)
                  IN  e = Len(s) + 1 \/ s[e] \notin WordSet

DeprecationKeywords ==
    { <<"d","e","p","r","e","c","a","t","i","o","n">>, <<"d","e","p","r","e","c","a","t","e","d">>, <<"p","e","n","d","i","n","g"," ","r","e","m","o","v","a","l">>, <<"r","e","m","o","v","a","l">>, <<"e","o","l">> }

\* the strong override
DeprecationOverride(intent, msg_lower) ==
    IF \/ \E k \in DeprecationKeywords : Contains(k, msg_lower)
       \/ PythonVersionSearch(msg_lower)
    THEN DEPRECATION_INFO
    ELSE intent

\* JiraOverride, had the count override left a deprecation question alone
JiraOverrideAfterDeprecation(intent, msg_lower) ==
    IF Contains(<<"s","c","r","u","m","-">>, msg_lower) THEN JIRA_DETAIL
    ELSE IF /\ Contains(<<"h","o","w"," ","m","a","n","y">>, msg_lower) /\ Contains(<<"t","i","c","k","e","t">>, msg_lower)
            /\ intent # DEPRECATION_INFO
         THEN JIRA_COUNT
         ELSE intent

\* the Jira overrides
JiraOverride(intent, msg_lower) ==
    IF Contains(<<"s","c","r","u","m","-">>, msg_lower) THEN JIRA_DETAIL
    ELSE IF Contains(<<"h","o","w"," ","m","a","n","y">>, msg_lower) /\ Contains(<<"t","i","c","k","e","t">>, msg_lower)
         THEN JIRA_COUNT
         ELSE intent

\* ClassifyIntent with the two overrides in the other order
ClassifyIntentSwapped(response, q) ==
    LET c == CleanIntent(response)
        msg_lower == Lower(q)
        intent == DeprecationOverride(JiraOverride(c.intent, msg_lower), msg_lower)
    IN  IF ~c.found_intent /\ intent \notin Range(valid_intents) THEN GENERAL ELSE intent

\* ClassifyIntent without the fallback to GENERAL
ClassifyIntentNoFallback(response, q) ==
    LET c == CleanIntent(response)
        msg_lower == Lower(q)
    IN  JiraOverride(DeprecationOverride(c.intent, msg_lower), msg_lower)

\* the intent answer_query dispatches on, from the classifier's response
ClassifyIntent(response, q) ==
    LET c == CleanIntent(response)
        msg_lower == Lower(q)
        intent == JiraOverride(DeprecationOverride(c.intent, msg_lower), msg_lower)
    IN  IF ~c.found_intent /\ intent \notin Range(valid_intents) THEN GENERAL ELSE intent

(***************************************************************************)
(* src/connectors: the providers                                           *)
(***************************************************************************)
\* JiraConnector.__init__: mock_mode from the token and the connection attempt
JiraMockMode(token, connects) ==
    IF token = "none" \/ token = "MOCK_TOKEN" THEN TRUE ELSE ~connects

\* what the live tracker does with one request: the request fails, or the
\* tracker holds these issues
JiraBackends ==
    { [fault |-> TRUE, issues |-> <<>>] } \cup
    { [fault |-> FALSE, issues |-> s] : s \in SeqsUpTo(LiveTicketPool, MaxTickets) }

\* get_tickets without the filter on the status
get_tickets_unfiltered(mock_mode, status, backend) ==
    IF mock_mode THEN Returned(MockTickets)
    ELSE IF backend.fault THEN Raised
    ELSE Returned(backend.issues)

\* JiraConnector.get_tickets(status)
get_tickets(mock_mode, status, backend) ==
    LET wanted(t) == status = None \/ Lower(t.status) = Lower(status)
    IN  IF mock_mode THEN Returned(SelectSeq(MockTickets, wanted))
        ELSE IF backend.fault THEN Raised
        ELSE Returned(SelectSeq(backend.issues, wanted))

\* JiraConnector.get_ticket(key): None when the ticket is missing, and also
\* when the live request fails
get_ticket(mock_mode, key, backend) ==
    LET tickets == IF mock_mode THEN MockTickets ELSE backend.issues
        found == { i \in DOMAIN tickets : tickets[i].key = key }
    IN  IF ~mock_mode /\ backend.fault THEN Returned(NoTicket)
        ELSE IF found = {} THEN Returned(NoTicket)
        ELSE Returned(tickets[SeqMin(found)])

\* what the live folder does with one request: the listing fails, or it
\* lists these files, of which some cannot be read
DriveBackends ==
    { [fault |-> TRUE, files |-> <<>>, unreadable |-> {}] } \cup
    { [fault |-> FALSE, files |-> s, unreadable |-> u] :
        s \in SeqsUpTo(LiveFilePool, MaxFiles), u \in SUBSET (1..MaxFiles) }

\* GDriveConnector.get_backlog_tasks(): a file that cannot be read is skipped
get_backlog_tasks(mock_mode, backend) ==
    IF mock_mode THEN Returned(MockBacklog)
    ELSE IF backend.fault THEN Raised
    ELSE LET readable == SelectSeq([i \in DOMAIN backend.files |-> i],
                             LAMBDA i : i \notin backend.unreadable)
         IN  Returned([j \in DOMAIN readable |-> backend.files[readable[j]]])

\* a provider request failed against the live backend
JiraFailed(mock_mode, backend) == ~mock_mode /\ backend.fault
DriveFailed(mock_mode, backend) ==
    ~mock_mode /\ (backend.fault \/ backend.unreadable \cap DOMAIN backend.files # {})

\* no request has reached a live backend
NoTracker == [fault |-> FALSE, issues |-> <<>>]
NoFolder == [fault |-> FALSE, files |-> <<>>, unreadable |-> {}]

\* the backends a connector can meet: none in mock mode
JiraEnv(mock_mode) ==
    IF mock_mode THEN { NoTracker } ELSE JiraBackends
DriveEnv(mock_mode) ==
    IF mock_mode THEN { NoFolder }
    ELSE { b \in DriveBackends : b.unreadable \subseteq DOMAIN b.files }

(***************************************************************************)
(* QAEngine.answer_query, step 2: the context of each intent               *)
(***************************************************************************)
\* GapItems against the titles as they are written
GapItemsCaseSensitive(deprecations, backlog_tasks) ==
    LET backlog_titles == { backlog_tasks[i].title : i \in DOMAIN backlog_tasks }
    IN  SelectSeq([i \in DOMAIN deprecations |-> i],
            LAMBDA i : ~\E title \in backlog_titles :
                          Contains(Lower(deprecations[i].feature), title))

\* DEPRECATION_GAP: the records whose feature occurs in no backlog title
GapItems(deprecations, backlog_tasks) ==
    LET backlog_titles == { Lower(backlog_tasks[i].title) : i \in DOMAIN backlog_tasks }
    IN  SelectSeq([i \in DOMAIN deprecations |-> i],
            LAMBDA i : ~\E title \in backlog_titles :
                          Contains(Lower(deprecations[i].feature), title))

GapContext(deprecations, gap) ==
    IF gap = <<>> THEN <<"A","l","l"," ","d","e","p","r","e","c","a","t","i","o","n","s"," ","s","e","e","m"," ","t","o"," ","b","e"," ","r","e","p","r","e","s","e","n","t","e","d"," ","i","n"," ","t","h","e"," ","b","a","c","k","l","o","g",".">>
    ELSE <<"D","e","p","r","e","c","a","t","i","o","n","s"," ","N","O","T"," ","f","o","u","n","d"," ","i","n"," ","B","a","c","k","l","o","g",":","\n">> \o
         Join(<<"\n">>, [i \in DOMAIN gap |->
             Concat(<< <<"-"," ">>, Fmt(deprecations[gap[i]].feature), <<" ","(","D","e","p","r","e","c","a","t","e","d",":"," ">>,
                       Fmt(deprecations[gap[i]].version_deprecated), <<")">> >>)])

\* JIRA_LIST
ListContext(ts) ==
    IF ts = <<>> THEN <<"N","o"," ","J","i","r","a"," ","t","i","c","k","e","t","s"," ","f","o","u","n","d",".">>
    ELSE <<"J","i","r","a"," ","T","i","c","k","e","t","s",":","\n">> \o
         Join(<<"\n">>, [i \in DOMAIN ts |->
             Concat(<< Fmt(ts[i].key), <<":"," ">>, Fmt(ts[i].summary), <<" ","(">>,
                       Fmt(ts[i].status), <<")">> >>)])

\* JIRA_COUNT: the status the question names
TargetStatus(msg_lower) ==
    IF Contains(<<"t","e","s","t","i","n","g">>, msg_lower) THEN <<"T","e","s","t","i","n","g">>
    ELSE IF Contains(<<"d","o","n","e">>, msg_lower) THEN <<"D","o","n","e">>
    ELSE IF Contains(<<"p","r","o","g","r","e","s","s">>, msg_lower) THEN <<"I","n"," ","P","r","o","g","r","e","s","s">>
    ELSE IF Contains(<<"t","o","d","o">>, msg_lower) \/ Contains(<<"t","o"," ","d","o">>, msg_lower) THEN <<"T","o"," ","D","o">>
    ELSE None

CountContext(ts, status) ==
    Concat(<< <<"F","o","u","n","d"," ">>, Str(Len(ts)), <<" ","t","i","c","k","e","t","s"," ","w","i","t","h"," ","s","t","a","t","u","s"," ","'">>,
              (IF status # None THEN status ELSE <<"T","o","t","a","l">>), <<"'",".">> >>)

\* TicketKey, had the pattern been scrum-(\d)
TicketKeyOneDigit(msg_lower) ==
    LET lit == <<"s","c","r","u","m","-">>
        starts == { i \in 1..Len(msg_lower) :
                      /\ StartsAt(lit, msg_lower, i)
                      /\ i + 6 <= Len(msg_lower)
                      /\ msg_lower[i + 6] \in DigitSet }
    IN  IF starts = {} THEN None
        ELSE <<"S","C","R","U","M","-">> \o <<msg_lower[SeqMin(starts) + 6]>>

\* JIRA_DETAIL: re.search(r"scrum-(\d+)", msg_lower), and the key built
\* from group 1 of the leftmost match, or None
TicketKey(msg_lower) ==
    LET lit == <<"s","c","r","u","m","-">>
        starts == { i \in 1..Len(msg_lower) :
                      /\ StartsAt(lit, msg_lower, i)
                      /\ i + 6 <= Len(msg_lower)
                      /\ msg_lower[i + 6] \in DigitSet }
    IN  IF starts = {} THEN None
        ELSE LET d == SeqMin(starts) + 6
             IN  <<"S","C","R","U","M","-">> \o SubSeq(msg_lower, d, RunEnd(msg_lower, d, DigitSet) - 1)

DetailContext(k, t) ==
    IF k = None THEN <<"C","o","u","l","d"," ","n","o","t"," ","i","d","e","n","t","i","f","y"," ","t","i","c","k","e","t"," ","k","e","y"," ","(","S","C","R","U","M","-","X","X","X",")"," ","i","n"," ","q","u","e","r","y",".">>
    ELSE IF t = NoTicket THEN Concat(<< <<"T","i","c","k","e","t"," ">>, k, <<" ","n","o","t"," ","f","o","u","n","d",".">> >>)
    ELSE Concat(<< <<"T","i","c","k","e","t"," ","D","e","t","a","i","l","s",":","\n">>, <<"K","e","y",":"," ">>, Fmt(t.key), <<"\n">>,
                   <<"S","u","m","m","a","r","y",":"," ">>, Fmt(t.summary), <<"\n">>,
                   <<"S","t","a","t","u","s",":"," ">>, Fmt(t.status), <<"\n">>,
                   <<"D","e","s","c","r","i","p","t","i","o","n",":"," ">>, Fmt(t.description), <<"\n">>,
                   <<"A","s","s","i","g","n","e","e",":"," ">>, Fmt(t.assignee) >>)

\* BACKLOG_LIST
BacklogContext(ts) ==
    IF ts = <<>> THEN <<"B","a","c","k","l","o","g"," ","i","s"," ","e","m","p","t","y",".">>
    ELSE <<"B","a","c","k","l","o","g"," ","F","i","l","e","s",":","\n">> \o Join(<<"\n">>, [i \in DOMAIN ts |-> Fmt(ts[i].title)])

\* PickupList comparing the titles and the summaries as they are written
PickupListCaseSensitive(ts, tkts) ==
    LET ticket_summaries == [i \in DOMAIN tkts |-> tkts[i].summary]
    IN  SelectSeq(ts, LAMBDA t : t.title \notin Range(ticket_summaries))

\* BACKLOG_PICKUP: the tasks whose title is the summary of no ticket
PickupList(ts, tkts) ==
    LET ticket_summaries == [i \in DOMAIN tkts |-> Lower(tkts[i].summary)]
    IN  SelectSeq(ts, LAMBDA t : Lower(t.title) \notin Range(ticket_summaries))

PickupContext(pickup) ==
    IF pickup = <<>> THEN <<"E","v","e","r","y","t","h","i","n","g"," ","i","n"," ","b","a","c","k","l","o","g"," ","i","s"," ","a","l","r","e","a","d","y"," ","i","n"," ","J","i","r","a",".">>
    ELSE <<"I","t","e","m","s"," ","t","o"," ","P","i","c","k","u","p"," ","(","i","n"," ","B","a","c","k","l","o","g"," ","b","u","t"," ","n","o","t"," ","J","i","r","a",")",":","\n">> \o
         Join(<<"\n">>, [i \in DOMAIN pickup |-> Fmt(pickup[i].title)])

(***************************************************************************)
(* QAEngine.answer_query, step 3: the final prompt                         *)
(***************************************************************************)
\* FinalPrompt from msg_lower in place of query
FinalPromptLower(q, context) ==
    Concat(<< <<"U","s","e","r"," ","Q","u","e","r","y",":"," ">>, Lower(q), <<"\n","\n","C","O","N","T","E","X","T"," ","D","A","T","A",":","\n">>, context >>)

FinalPrompt(q, context) ==
    Concat(<< <<"U","s","e","r"," ","Q","u","e","r","y",":"," ">>, q, <<"\n","\n","C","O","N","T","E","X","T"," ","D","A","T","A",":","\n">>, context >>)

(***************************************************************************)
(* The program: main() builds the connectors, the client and the engine,   *)
(* then answers one question after the other                               *)
(***************************************************************************)
VARIABLES
    boot,               \* where main() is: "jira", "gdrive", "llm", "engine", "loop", "crashed"
    jira_token,         \* JiraConnector: the token it was built with
    jira_mock_mode,     \* JiraConnector.mock_mode
    gdrive_mock_mode,   \* GDriveConnector.mock_mode
    llm_client,         \* the class of QAEngine.llm_client
    deprecations,       \* QAEngine.deprecations, the catalog; empty before it is loaded
    loads,              \* the calls of DocConnector.fetch_deprecations so far
    load_failed,        \* fetch_deprecations raised
    pc,                 \* where answer_query is: "idle", "classified", "retrieved", "done"
    query,              \* answer_query's argument
    intent,             \* the locals of answer_query ...
    found_intent,
    key,
    target_status,
    match,              \* (mode, target, hits)
    tasks,              \* tasks / backlog_tasks
    tickets,
    ticket,
    pickup_list,
    gap_items,
    context_data,
    final_prompt,
    outcome,            \* "pending", "returned" or "raised"
    result,             \* the string answer_query returned
    calls,              \* the Text Generator and provider calls of this answer_query
    jira_backend,       \* the live tracker as the ticket call of this answer_query met it
    drive_backend,      \* the live folder as the backlog call of this answer_query met it
    cls_failed,         \* the classification request failed at the backend
    prov_failed,        \* a provider request failed at the live backend
    gen_failed          \* the final request failed at the backend

config == <<boot, jira_token, jira_mock_mode, gdrive_mock_mode, llm_client,
            deprecations, loads, load_failed>>
locals == <<intent, found_intent, key, target_status, match, tasks, tickets, ticket,
            pickup_list, gap_items, context_data>>
frame == <<pc, query, locals, final_prompt, outcome, result>>
ghost == <<calls, jira_backend, drive_backend, cls_failed, prov_failed, gen_failed>>
vars == <<config, frame, ghost>>

\* no answer_query is running
Idle ==
    /\ pc = "idle"
    /\ query = None
    /\ intent = None /\ found_intent = FALSE
    /\ key = None /\ target_status = None /\ match = NoMatch
    /\ tasks = None /\ tickets = None /\ ticket = NoTicket
    /\ pickup_list = None /\ gap_items = None /\ context_data = None
    /\ final_prompt = None /\ outcome = "pending" /\ result = None
    /\ calls = <<>>
    /\ jira_backend = NoTracker /\ drive_backend = NoFolder
    /\ cls_failed = FALSE /\ prov_failed = FALSE /\ gen_failed = FALSE

Init ==
    /\ boot = "jira"
    /\ jira_token = "none" /\ jira_mock_mode = TRUE
    /\ gdrive_mock_mode = TRUE
    /\ llm_client = "none"
    /\ deprecations = <<>>
    /\ loads = 0
    /\ load_failed = FALSE
    /\ Idle

\* JiraConnector.__init__
JiraInit ==
    /\ boot = "jira"
    /\ \E token \in {"none", "MOCK_TOKEN", "live"}, connects \in BOOLEAN :
          /\ jira_token' = token
          /\ jira_mock_mode' = JiraMockMode(token, connects)
    /\ boot' = "gdrive"
    /\ UNCHANGED <<gdrive_mock_mode, llm_client, deprecations, loads, load_failed, frame, ghost>>

\* GDriveConnector.__init__
GDriveInit ==
    /\ boot = "gdrive"
    /\ \E credentials_found \in BOOLEAN : gdrive_mock_mode' = ~credentials_found
    /\ boot' = "llm"
    /\ UNCHANGED <<jira_token, jira_mock_mode, llm_client, deprecations, loads, load_failed,
                   frame, ghost>>

\* create_llm_client, or ConcreteLLMClient of the ADK agent
LLMInit ==
    /\ boot = "llm"
    /\ llm_client' \in LLMKinds
    /\ boot' = "engine"
    /\ UNCHANGED <<jira_token, jira_mock_mode, gdrive_mock_mode, deprecations, loads,
                   load_failed, frame, ghost>>

\* EngineInit, had it caught the error of fetch_deprecations and gone on
\* without a catalog
EngineInitSwallow ==
    /\ boot = "engine"
    /\ loads' = loads + 1
    /\ \/ load_failed' = TRUE /\ UNCHANGED deprecations
       \/ load_failed' = FALSE /\ deprecations' \in Catalogs
    /\ boot' = "loop"
    /\ UNCHANGED <<jira_token, jira_mock_mode, gdrive_mock_mode, llm_client, frame, ghost>>

\* QAEngine.__init__: fetch_deprecations raises, and main() with it, or it
\* returns the catalog
EngineInit ==
    /\ boot = "engine"
    /\ loads' = loads + 1
    /\ \/ /\ load_failed' = TRUE
          /\ boot' = "crashed"
          /\ UNCHANGED deprecations
       \/ /\ load_failed' = FALSE
          /\ deprecations' \in Catalogs
          /\ boot' = "loop"
    /\ UNCHANGED <<jira_token, jira_mock_mode, gdrive_mock_mode, llm_client, frame, ghost>>

\* answer_query raises
Raise ==
    /\ pc' = "done"
    /\ outcome' = "raised"
    /\ UNCHANGED result

\* answer_query(q), step 1: the classification call and the overrides
Classify ==
    /\ boot = "loop"
    /\ pc = "idle"
    /\ \E q \in Questions, backend \in Backends(llm_client, ClassifyReplies) :
          LET r == generate_response(llm_client, ClassifyPrompt(q), backend)
          IN  /\ query' = q
              /\ calls' = <<"generate_response">>
              /\ cls_failed' = backend.fault
              /\ IF r.raised
                 THEN Raise /\ UNCHANGED <<intent, found_intent>>
                 ELSE /\ found_intent' = CleanIntent(r.value).found_intent
                      /\ intent' = ClassifyIntent(r.value, q)
                      /\ pc' = "classified"
                      /\ UNCHANGED <<outcome, result>>
    /\ UNCHANGED <<config, key, target_status, match, tasks, tickets, ticket,
                   pickup_list, gap_items, context_data, final_prompt,
                   jira_backend, drive_backend, prov_failed, gen_failed>>

\* step 2 ends with the context
Retrieved(context) ==
    /\ context_data' = context
    /\ pc' = "retrieved"
    /\ UNCHANGED <<outcome, result>>

\* RetrieveDeprecationInfo, had _find_deprecations ranked the catalog with
\* self.deprecations.sort(key=score, reverse=True)
RetrieveDeprecationInfoSortInPlace ==
    /\ pc = "classified" /\ intent = DEPRECATION_INFO
    /\ match' = _find_deprecations(query, deprecations)
    /\ deprecations' =
          IF match'.mode # "FEATURE_SEARCH" THEN deprecations
          ELSE LET tokens == Tokens(Lower(query))
                   ranked == SortedReverse([i \in DOMAIN deprecations |->
                                               score(deprecations[i], tokens)])
               IN  [i \in DOMAIN ranked |-> deprecations[ranked[i]]]
    /\ Retrieved(_format_deprecations_context(match', deprecations))
    /\ UNCHANGED <<boot, jira_token, jira_mock_mode, gdrive_mock_mode, llm_client, loads,
                   load_failed, query, intent, found_intent, key, target_status, tasks,
                   tickets, ticket, pickup_list, gap_items, final_prompt, ghost>>

RetrieveDeprecationInfo ==
    /\ pc = "classified" /\ intent = DEPRECATION_INFO
    /\ match' = _find_deprecations(query, deprecations)
    /\ Retrieved(_format_deprecations_context(match', deprecations))
    /\ UNCHANGED <<config, query, intent, found_intent, key, target_status, tasks, tickets, ticket,
                   pickup_list, gap_items, final_prompt, ghost>>

RetrieveDeprecationGap ==
    /\ pc = "classified" /\ intent = DEPRECATION_GAP
    /\ calls' = Append(calls, "get_backlog_tasks")
    /\ \E backend \in DriveEnv(gdrive_mock_mode) :
          LET r == get_backlog_tasks(gdrive_mock_mode, backend)
          IN  /\ drive_backend' = backend
              /\ prov_failed' = DriveFailed(gdrive_mock_mode, backend)
              /\ IF r.raised
                 THEN Raise /\ UNCHANGED <<tasks, gap_items, context_data>>
                 ELSE /\ tasks' = r.value
                      /\ gap_items' = GapItems(deprecations, r.value)
                      /\ Retrieved(GapContext(deprecations, gap_items'))
    /\ UNCHANGED <<config, query, intent, found_intent, key, target_status, match, tickets, ticket,
                   pickup_list, final_prompt, jira_backend, cls_failed, gen_failed>>

\* RetrieveJiraList answering from the tickets an earlier call fetched,
\* without a call
RetrieveJiraListCached ==
    /\ pc = "classified" /\ intent = JIRA_LIST
    /\ \E backend \in JiraEnv(jira_mock_mode) :
       \E earlier \in { b \in JiraEnv(jira_mock_mode) : ~b.fault } :
          /\ jira_backend' = backend
          /\ prov_failed' = FALSE
          /\ tickets' = get_tickets(jira_mock_mode, None, earlier).value
          /\ Retrieved(ListContext(tickets'))
    /\ UNCHANGED <<config, query, intent, found_intent, key, target_status, match, tasks, ticket,
                   pickup_list, gap_items, final_prompt, calls, drive_backend, cls_failed,
                   gen_failed>>

RetrieveJiraList ==
    /\ pc = "classified" /\ intent = JIRA_LIST
    /\ calls' = Append(calls, "get_tickets")
    /\ \E backend \in JiraEnv(jira_mock_mode) :
          LET r == get_tickets(jira_mock_mode, None, backend)
          IN  /\ jira_backend' = backend
              /\ prov_failed' = JiraFailed(jira_mock_mode, backend)
              /\ IF r.raised
                 THEN Raise /\ UNCHANGED <<tickets, context_data>>
                 ELSE /\ tickets' = r.value
                      /\ Retrieved(ListContext(r.value))
    /\ UNCHANGED <<config, query, intent, found_intent, key, target_status, match, tasks, ticket,
                   pickup_list, gap_items, final_prompt, drive_backend, cls_failed, gen_failed>>

RetrieveJiraCount ==
    /\ pc = "classified" /\ intent = JIRA_COUNT
    /\ target_status' = TargetStatus(Lower(query))
    /\ calls' = Append(calls, "get_tickets")
    /\ \E backend \in JiraEnv(jira_mock_mode) :
          LET r == get_tickets(jira_mock_mode, target_status', backend)
          IN  /\ jira_backend' = backend
              /\ prov_failed' = JiraFailed(jira_mock_mode, backend)
              /\ IF r.raised
                 THEN Raise /\ UNCHANGED <<tickets, context_data>>
                 ELSE /\ tickets' = r.value
                      /\ Retrieved(CountContext(r.value, target_status'))
    /\ UNCHANGED <<config, query, intent, found_intent, key, match, tasks, ticket,
                   pickup_list, gap_items, final_prompt, drive_backend, cls_failed, gen_failed>>

RetrieveJiraDetail ==
    /\ pc = "classified" /\ intent = JIRA_DETAIL
    /\ key' = TicketKey(Lower(query))
    /\ IF key' = None
       THEN /\ Retrieved(DetailContext(None, NoTicket))
            /\ UNCHANGED <<ticket, calls, jira_backend, prov_failed>>
       ELSE /\ calls' = Append(calls, "get_ticket")
            /\ \E backend \in JiraEnv(jira_mock_mode) :
                  LET r == get_ticket(jira_mock_mode, key', backend)
                  IN  /\ jira_backend' = backend
                      /\ prov_failed' = JiraFailed(jira_mock_mode, backend)
                      /\ ticket' = r.value
                      /\ Retrieved(DetailContext(key', r.value))
    /\ UNCHANGED <<config, query, intent, found_intent, target_status, match, tasks, tickets,
                   pickup_list, gap_items, final_prompt, drive_backend, cls_failed, gen_failed>>

RetrieveBacklogList ==
    /\ pc = "classified" /\ intent = BACKLOG_LIST
    /\ calls' = Append(calls, "get_backlog_tasks")
    /\ \E backend \in DriveEnv(gdrive_mock_mode) :
          LET r == get_backlog_tasks(gdrive_mock_mode, backend)
          IN  /\ drive_backend' = backend
              /\ prov_failed' = DriveFailed(gdrive_mock_mode, backend)
              /\ IF r.raised
                 THEN Raise /\ UNCHANGED <<tasks, context_data>>
                 ELSE /\ tasks' = r.value
                      /\ Retrieved(BacklogContext(r.value))
    /\ UNCHANGED <<config, query, intent, found_intent, key, target_status, match, tickets, ticket,
                   pickup_list, gap_items, final_prompt, jira_backend, cls_failed, gen_failed>>

RetrieveBacklogPickup ==
    /\ pc = "classified" /\ intent = BACKLOG_PICKUP
    /\ \E drive \in DriveEnv(gdrive_mock_mode), jira \in JiraEnv(jira_mock_mode) :
          LET r1 == get_backlog_tasks(gdrive_mock_mode, drive)
              r2 == get_tickets(jira_mock_mode, None, jira)
          IN  IF r1.raised
              THEN /\ calls' = Append(calls, "get_backlog_tasks")
                   /\ drive_backend' = drive
                   /\ UNCHANGED jira_backend
                   /\ prov_failed' = TRUE
                   /\ Raise
                   /\ UNCHANGED <<tasks, tickets, pickup_list, context_data>>
              ELSE /\ calls' = calls \o <<"get_backlog_tasks", "get_tickets">>
                   /\ drive_backend' = drive
                   /\ jira_backend' = jira
                   /\ prov_failed' = (DriveFailed(gdrive_mock_mode, drive)
                                        \/ JiraFailed(jira_mock_mode, jira))
                   /\ tasks' = r1.value
                   /\ IF r2.raised
                      THEN Raise /\ UNCHANGED <<tickets, pickup_list, context_data>>
                      ELSE /\ tickets' = r2.value
                           /\ pickup_list' = PickupList(r1.value, r2.value)
                           /\ Retrieved(PickupContext(pickup_list'))
    /\ UNCHANGED <<config, query, intent, found_intent, key, target_status, match, ticket,
                   gap_items, final_prompt, cls_failed, gen_failed>>

RetrieveGeneral ==
    /\ pc = "classified" /\ intent = GENERAL
    /\ Retrieved(<<>>)
    /\ UNCHANGED <<config, query, intent, found_intent, key, target_status, match, tasks, tickets,
                   ticket, pickup_list, gap_items, final_prompt, ghost>>

\* Generate with a second request after a failed one
GenerateRetry ==
    /\ pc = "retrieved"
    /\ final_prompt' = FinalPrompt(query, context_data)
    /\ \E first, second \in Backends(llm_client, FinalReplies) :
          LET backend == IF first.fault THEN second ELSE first
              r == generate_response(llm_client, final_prompt', backend)
          IN  /\ calls' = IF first.fault
                          THEN calls \o <<"generate_response", "generate_response">>
                          ELSE Append(calls, "generate_response")
              /\ gen_failed' = backend.fault
              /\ pc' = "done"
              /\ outcome' = IF r.raised THEN "raised" ELSE "returned"
              /\ result' = r.value
    /\ UNCHANGED <<config, query, locals, jira_backend, drive_backend, cls_failed,
                   prov_failed>>

\* step 3: the final prompt and the final call
Generate ==
    /\ pc = "retrieved"
    /\ final_prompt' = FinalPrompt(query, context_data)
    /\ calls' = Append(calls, "generate_response")
    /\ \E backend \in Backends(llm_client, FinalReplies) :
          LET r == generate_response(llm_client, final_prompt', backend)
          IN  /\ gen_failed' = backend.fault
              /\ pc' = "done"
              /\ outcome' = IF r.raised THEN "raised" ELSE "returned"
              /\ result' = r.value
    /\ UNCHANGED <<config, query, locals, jira_backend, drive_backend, cls_failed,
                   prov_failed>>

\* main() prints the answer, or the error, and asks for the next question
NextQuestion ==
    /\ pc = "done"
    /\ pc' = "idle"
    /\ query' = None
    /\ intent' = None /\ found_intent' = FALSE /\ key' = None /\ target_status' = None /\ match' = NoMatch
    /\ tasks' = None /\ tickets' = None /\ ticket' = NoTicket
    /\ pickup_list' = None /\ gap_items' = None /\ context_data' = None
    /\ final_prompt' = None /\ outcome' = "pending" /\ result' = None
    /\ calls' = <<>>
    /\ jira_backend' = NoTracker /\ drive_backend' = NoFolder
    /\ cls_failed' = FALSE /\ prov_failed' = FALSE /\ gen_failed' = FALSE
    /\ UNCHANGED config

Next ==
    \/ JiraInit \/ GDriveInit \/ LLMInit \/ EngineInit
    \/ Classify
    \/ RetrieveDeprecationInfo \/ RetrieveDeprecationGap \/ RetrieveJiraList
    \/ RetrieveJiraCount \/ RetrieveJiraDetail \/ RetrieveBacklogList
    \/ RetrieveBacklogPickup \/ RetrieveGeneral
    \/ Generate
    \/ NextQuestion

Spec == Init /\ [][Next]_vars

(***************************************************************************)
(* The matcher on its own: _find_deprecations applied to a question and a  *)
(* catalog                                                                 *)
(***************************************************************************)
InitMatch ==
    /\ boot = "loop"
    /\ jira_token = "none" /\ jira_mock_mode = TRUE
    /\ gdrive_mock_mode = TRUE
    /\ llm_client = "MockLLMClient"
    /\ deprecations \in LongCatalogs \cup Catalogs
    /\ loads = 1
    /\ load_failed = FALSE
    /\ pc = "idle"
    /\ query \in MatchQuestions
    /\ intent = DEPRECATION_INFO /\ found_intent = FALSE /\ key = None /\ target_status = None /\ match = NoMatch
    /\ tasks = None /\ tickets = None /\ ticket = NoTicket
    /\ pickup_list = None /\ gap_items = None /\ context_data = None
    /\ final_prompt = None /\ outcome = "pending" /\ result = None
    /\ calls = <<>>
    /\ jira_backend = NoTracker /\ drive_backend = NoFolder
    /\ cls_failed = FALSE /\ prov_failed = FALSE /\ gen_failed = FALSE

FindDeprecations ==
    /\ pc = "idle"
    /\ match' = _find_deprecations(query, deprecations)
    /\ pc' = "matched"
    /\ UNCHANGED <<config, query, intent, found_intent, key, target_status, tasks, tickets, ticket,
                   pickup_list, gap_items, context_data, final_prompt, outcome, result,
                   ghost>>

NextMatch == FindDeprecations

SpecMatch == InitMatch /\ [][NextMatch]_vars


(***************************************************************************)
(* The clean-up and the overrides on their own: answer_query from the      *)
(* return of the classification call to the dispatch                       *)
(***************************************************************************)
\* the responses of the classification call, stripped
Responses == { Strip(t) : t \in ClassifyReplies }

\* intent holds the stripped response
InitRoute ==
    /\ boot = "loop"
    /\ jira_token = "none" /\ jira_mock_mode = TRUE
    /\ gdrive_mock_mode = TRUE
    /\ llm_client = "OllamaClient"
    /\ deprecations \in Catalogs
    /\ loads = 1
    /\ load_failed = FALSE
    /\ pc = "responded"
    /\ query \in Questions
    /\ intent \in Responses
    /\ found_intent = FALSE
    /\ key = None /\ target_status = None /\ match = NoMatch
    /\ tasks = None /\ tickets = None /\ ticket = NoTicket
    /\ pickup_list = None /\ gap_items = None /\ context_data = None
    /\ final_prompt = None /\ outcome = "pending" /\ result = None
    /\ calls = <<"generate_response">>
    /\ jira_backend = NoTracker /\ drive_backend = NoFolder
    /\ cls_failed = FALSE /\ prov_failed = FALSE /\ gen_failed = FALSE

CleanUpIntent ==
    /\ pc = "responded"
    /\ found_intent' = CleanIntent(intent).found_intent
    /\ intent' = ClassifyIntent(intent, query)
    /\ pc' = "classified"
    /\ UNCHANGED <<config, query, key, target_status, match, tasks, tickets, ticket,
                   pickup_list, gap_items, context_data, final_prompt, outcome, result,
                   ghost>>

NextRoute == CleanUpIntent

SpecRoute == InitRoute /\ [][NextRoute]_vars
(***************************************************************************)
(* Properties                                                              *)
(***************************************************************************)
\* answer_query has an intent to dispatch on
Classified == pc \in {"classified", "retrieved", "done"} /\ intent # None

AsksHowManyTickets ==
    Contains(<<"h","o","w"," ","m","a","n","y">>, Lower(query)) /\ Contains(<<"t","i","c","k","e","t">>, Lower(query))

\* C1: whenever the question contains "scrum-" in any letter case, the
\* intent answer_query dispatches on is JIRA_DETAIL, whatever the classifier
\* answered and whatever else the question contains
C1_TicketKeyWins ==
    (Classified /\ Contains(<<"s","c","r","u","m","-">>, Lower(query))) => intent = JIRA_DETAIL

\* a question with an upper-case ticket key, a deprecation keyword, a
\* "python 3.<digits>" and "how many ... ticket", dispatched as JIRA_DETAIL
C1_Witness ==
    /\ Classified
    /\ Contains(<<"S","C","R","U","M","-","4","2">>, query)
    /\ Contains(<<"d","e","p","r","e","c","a","t","e","d">>, Lower(query))
    /\ PythonVersionSearch(Lower(query))
    /\ AsksHowManyTickets
    /\ intent = JIRA_DETAIL

\* C2 as stated: a question with "deprecated", "how many" and "ticket" and no
\* "scrum-" is dispatched as DEPRECATION_INFO
C2_DeprecationBeatsCount ==
    (/\ Classified
     /\ Contains(<<"d","e","p","r","e","c","a","t","e","d">>, Lower(query))
     /\ AsksHowManyTickets
     /\ ~Contains(<<"s","c","r","u","m","-">>, Lower(query))) => intent = DEPRECATION_INFO

\* C2, amended: a question with "how many" and "ticket" and no "scrum-" is
\* dispatched as JIRA_COUNT, also when it contains "deprecated": the count
\* override is applied after the deprecation override
C2_CountBeatsDeprecation ==
    (/\ Classified
     /\ AsksHowManyTickets
     /\ ~Contains(<<"s","c","r","u","m","-">>, Lower(query))) => intent = JIRA_COUNT

C2_Witness ==
    /\ Classified
    /\ Contains(<<"d","e","p","r","e","c","a","t","e","d">>, Lower(query))
    /\ AsksHowManyTickets
    /\ ~Contains(<<"s","c","r","u","m","-">>, Lower(query))
    /\ intent = JIRA_COUNT

\* the version "3.<N>" of the leftmost "pending removal in python 3.<N>" of
\* q, or None when q has none
AskedRemoval(q) ==
    LET lit == <<"p","e","n","d","i","n","g"," ","r","e","m","o","v","a","l"," ","i","n"," ","p","y","t","h","o","n"," ","3",".">>
        at == { i \in 1..Len(q) :
                  /\ StartsAt(lit, q, i)
                  /\ i + Len(lit) <= Len(q)
                  /\ q[i + Len(lit)] \in DigitSet }
    IN  IF at = {} THEN None
        ELSE LET d == SeqMin(at) + Len(lit)
                 e == CHOOSE k \in d..Len(q) :
                          /\ \A j \in d..k : q[j] \in DigitSet
                          /\ (k = Len(q) \/ q[k + 1] \notin DigitSet)
             IN  <<"3",".">> \o SubSeq(q, d, e)

\* the positions of the catalog's records removed in version v, in catalog order
RemovedIn(v) ==
    SelectSeq([i \in DOMAIN deprecations |-> i],
        LAMBDA i : /\ deprecations[i].version_removed # None
                   /\ Lower(deprecations[i].version_removed) = Lower(v))

\* C3: for a question whose lower-cased text has "pending removal in python
\* 3.<N>", _find_deprecations returns REMOVAL_LIST, the target "3.<N>" and
\* as hits exactly the records removed in that version, in catalog order,
\* be they none
C3_RemovalList ==
    (pc = "matched" /\ AskedRemoval(Lower(query)) # None) =>
        /\ match.mode = "REMOVAL_LIST"
        /\ match.target = AskedRemoval(Lower(query))
        /\ match.hits = RemovedIn(match.target)

\* "Pending removal in Python 3.15" on a catalog of which some records, not
\* all, are removed in 3.15
C3_Witness ==
    /\ pc = "matched"
    /\ AskedRemoval(Lower(query)) = <<"3",".","1","5">>
    /\ match.mode = "REMOVAL_LIST"
    /\ Len(match.hits) >= 2
    /\ Len(match.hits) < Len(deprecations)
    /\ match.hits[1] > 1

\* the scores of the catalog's records for the question
Scores ==
    LET tokens == Tokens(Lower(query))
    IN  [i \in DOMAIN deprecations |-> score(deprecations[i], tokens)]

\* record i comes before record j in the ranking by the scores sc: a higher
\* score, or the same score and earlier in the catalog
RankedBefore(sc, i, j) == sc[i] > sc[j] \/ (sc[i] = sc[j] /\ i < j)

\* C4: the hits of a feature search are at most 10, by non-increasing score
\* and in catalog order among equal scores, none of score 0, and no record
\* of positive score left out comes before a hit in that ranking
C4_FeatureSearch ==
    (pc = "matched" /\ match.mode = "FEATURE_SEARCH") =>
        \A hits \in {match.hits}, sc \in {Scores} :
            /\ Len(hits) <= 10
            /\ \A a, b \in DOMAIN hits : a < b => RankedBefore(sc, hits[a], hits[b])
            /\ \A a \in DOMAIN hits : sc[hits[a]] > 0
            /\ \A i \in DOMAIN deprecations \ Range(hits) :
                  \/ sc[i] = 0
                  \/ /\ Len(hits) = 10
                     /\ \A a \in DOMAIN hits : RankedBefore(sc, hits[a], i)

\* a search with more than 10 records of positive score, of two different
\* scores, each score more than once among the hits
C4_Witness ==
    /\ pc = "matched" /\ match.mode = "FEATURE_SEARCH"
    /\ Len(match.hits) = 10
    /\ \E hits \in {match.hits}, sc \in {Scores} :
           /\ Cardinality({ i \in DOMAIN deprecations : sc[i] > 0 }) > 10
           /\ \E a \in 2..8 :
                 /\ sc[hits[a - 1]] = sc[hits[a]]
                 /\ sc[hits[a]] > sc[hits[a + 1]]
                 /\ sc[hits[a + 1]] = sc[hits[a + 2]]
                 /\ hits[a + 1] < hits[a]

\* s occurs in p at position i
OccursAt(s, p, i) == StartsAt(s, p, i)

\* C5: the prompt of the final call holds the question as it was asked and,
\* after it, the context as the retrieval step built it
C5_PromptVerbatim ==
    final_prompt # None =>
        \E i \in 1..(Len(final_prompt) + 1) :
            /\ OccursAt(query, final_prompt, i)
            /\ \E j \in (i + Len(query))..(Len(final_prompt) + 1) :
                  /\ OccursAt(context_data, final_prompt, j)
                  /\ j + Len(context_data) = Len(final_prompt) + 1

\* a final call for a question with upper-case letters and a context of
\* several lines
C5_Witness ==
    /\ pc = "done" /\ final_prompt # None
    /\ Lower(query) # query
    /\ Contains(<<"\n">>, context_data)
    /\ intent = JIRA_DETAIL

\* C6: when the classification request fails, answer_query raises at once:
\* no intent, no provider call, no final call
C6_ClassificationFailureRaises ==
    cls_failed => (pc = "done" /\ outcome = "raised" /\ intent = None
                     /\ calls = <<"generate_response">>)

\* C7: when the final request fails, answer_query raises and returns no string
C7_GenerationFailureRaises ==
    gen_failed => (outcome = "raised" /\ result = None)

\* C8: when a provider request fails at the live backend, answer_query
\* raises, and no context is built and no final call is made
C8_RetrievalFailureRaises ==
    prov_failed => (pc = "done" /\ outcome = "raised" /\ context_data = None
                      /\ final_prompt = None)

\* C9: the catalog is loaded once, when the engine is built, and by no
\* answer_query; when the load fails there is no engine, and no question
\* is answered
C9_CatalogLoadedOnce ==
    /\ boot \in {"jira", "gdrive", "llm", "engine"} => loads = 0
    /\ boot \in {"loop", "crashed"} => loads = 1
    /\ load_failed => boot = "crashed"
    /\ pc # "idle" => boot = "loop"

\* an answer given by an engine that loaded its catalog once
C9_Witness ==
    /\ boot = "loop" /\ loads = 1
    /\ pc = "done" /\ outcome = "returned"
    /\ Len(deprecations) = 2

\* task t is among the tasks of list l
Listed(t, l) == \E i \in DOMAIN l : l[i] = t

\* C10: a backlog item is picked up if and only if its lower-cased title is
\* the lower-cased summary of no ticket, the context lists the titles of the
\* items picked up, and it is the "already in Jira" sentence when there are none
C10_Pickup ==
    (intent = BACKLOG_PICKUP /\ pc \in {"retrieved", "done"} /\ context_data # None) =>
        /\ \A i \in DOMAIN tasks :
              Listed(tasks[i], pickup_list) <=>
                  ~\E k \in DOMAIN tickets :
                       Lower(tasks[i].title) = Lower(tickets[k].summary)
        /\ \A i \in DOMAIN pickup_list : Listed(pickup_list[i], tasks)
        /\ pickup_list = <<>> <=>
              context_data = <<"E","v","e","r","y","t","h","i","n","g"," ","i","n"," ","b","a","c","k","l","o","g"," ","i","s"," ","a","l","r","e","a","d","y"," ","i","n"," ","J","i","r","a",".">>
        /\ \A i \in DOMAIN pickup_list :
              Contains(<<"\n">> \o pickup_list[i].title, context_data)

\* the backlog item "Deprecate old SSL" and the ticket "deprecate old ssl":
\* nothing to pick up
C10_Witness ==
    /\ intent = BACKLOG_PICKUP /\ pc = "retrieved"
    /\ \E i \in DOMAIN tasks : tasks[i].title = <<"D","e","p","r","e","c","a","t","e"," ","o","l","d"," ","S","S","L">>
    /\ \E k \in DOMAIN tickets : tickets[k].summary = <<"d","e","p","r","e","c","a","t","e"," ","o","l","d"," ","s","s","l">>
    /\ pickup_list = <<>>
    /\ context_data = <<"E","v","e","r","y","t","h","i","n","g"," ","i","n"," ","b","a","c","k","l","o","g"," ","i","s"," ","a","l","r","e","a","d","y"," ","i","n"," ","J","i","r","a",".">>


\* C11: for DEPRECATION_GAP a record of the catalog is reported as a gap if
\* and only if its lower-cased feature is a substring of no lower-cased
\* backlog title (every record, then, when the backlog is empty); the
\* context names the gaps, and it is the "all represented" sentence when
\* there are none
C11_Gap ==
    (intent = DEPRECATION_GAP /\ pc \in {"retrieved", "done"} /\ context_data # None) =>
        /\ \A i \in DOMAIN deprecations :
              (\E g \in DOMAIN gap_items : gap_items[g] = i) <=>
                  ~\E j \in DOMAIN tasks :
                       Contains(Lower(deprecations[i].feature), Lower(tasks[j].title))
        /\ tasks = <<>> => Len(gap_items) = Len(deprecations)
        /\ gap_items = <<>> <=>
              context_data = <<"A","l","l"," ","d","e","p","r","e","c","a","t","i","o","n","s"," ","s","e","e","m"," ","t","o"," ","b","e"," ","r","e","p","r","e","s","e","n","t","e","d"," ","i","n"," ","t","h","e"," ","b","a","c","k","l","o","g",".">>
        /\ \A g \in DOMAIN gap_items :
              Contains(<<"\n","-"," ">> \o deprecations[gap_items[g]].feature \o <<" ","(","D","e","p","r","e","c","a","t","e","d",":"," ">>,
                       context_data)

\* the catalog of "ssl" and "smtpd" against the backlog title "Deprecate old
\* SSL": "smtpd" is a gap, "ssl" is none
C11_Witness ==
    /\ intent = DEPRECATION_GAP /\ pc = "retrieved"
    /\ Len(deprecations) = 2
    /\ \E j \in DOMAIN tasks : tasks[j].title = <<"D","e","p","r","e","c","a","t","e"," ","o","l","d"," ","S","S","L">>
    /\ gap_items = <<2>>
    /\ deprecations[1].feature = <<"s","s","l">>
    /\ Contains(<<"-"," ","s","m","t","p","d"," ","(","D","e","p","r","e","c","a","t","e","d",":"," ">>, context_data)

\* the question names none of the statuses of JIRA_COUNT
NamesNoStatus(msg_lower) ==
    \A k \in { <<"t","e","s","t","i","n","g">>, <<"d","o","n","e">>, <<"p","r","o","g","r","e","s","s">>, <<"t","o","d","o">>, <<"t","o"," ","d","o">> } :
        ~Contains(k, msg_lower)

\* C12: for JIRA_COUNT a question with "testing" is answered from the
\* tickets of status "Testing" alone, with their number and the label
\* 'Testing'; a question naming no status is answered from all the
\* tickets, with their number and the label 'Total'
C12_Count ==
    (intent = JIRA_COUNT /\ pc \in {"retrieved", "done"} /\ context_data # None) =>
        /\ Contains(<<"t","e","s","t","i","n","g">>, Lower(query)) =>
              /\ \A i \in DOMAIN tickets : tickets[i].status = <<"T","e","s","t","i","n","g">>
              /\ jira_mock_mode =>
                    /\ tickets = SelectSeq(MockTickets, LAMBDA t : t.status = <<"T","e","s","t","i","n","g">>)
                    /\ context_data = <<"F","o","u","n","d"," ","2"," ","t","i","c","k","e","t","s"," ","w","i","t","h"," ","s","t","a","t","u","s"," ","'","T","e","s","t","i","n","g","'",".">>
              /\ context_data =
                    <<"F","o","u","n","d"," ">> \o Str(Len(tickets)) \o <<" ","t","i","c","k","e","t","s"," ","w","i","t","h"," ","s","t","a","t","u","s"," ","'","T","e","s","t","i","n","g","'",".">>
        /\ NamesNoStatus(Lower(query)) =>
              /\ target_status = None
              /\ jira_mock_mode =>
                    /\ tickets = MockTickets
                    /\ context_data = <<"F","o","u","n","d"," ","3"," ","t","i","c","k","e","t","s"," ","w","i","t","h"," ","s","t","a","t","u","s"," ","'","T","o","t","a","l","'",".">>
              /\ context_data =
                    <<"F","o","u","n","d"," ">> \o Str(Len(tickets)) \o <<" ","t","i","c","k","e","t","s"," ","w","i","t","h"," ","s","t","a","t","u","s"," ","'","T","o","t","a","l","'",".">>

\* "how many testing tickets" asked of the fixture tickets, two of the three
\* in status "Testing"
C12_Witness ==
    /\ intent = JIRA_COUNT /\ pc = "retrieved"
    /\ jira_mock_mode
    /\ Contains(<<"t","e","s","t","i","n","g">>, Lower(query))
    /\ Len(tickets) = 2
    /\ context_data = <<"F","o","u","n","d"," ","2"," ","t","i","c","k","e","t","s"," ","w","i","t","h"," ","s","t","a","t","u","s"," ","'","T","e","s","t","i","n","g","'",".">>

\* no override applies to the question
NoOverride(msg_lower) ==
    /\ \A k \in { <<"d","e","p","r","e","c","a","t","i","o","n">>, <<"d","e","p","r","e","c","a","t","e","d">>, <<"p","e","n","d","i","n","g"," ","r","e","m","o","v","a","l">>, <<"r","e","m","o","v","a","l">>, <<"e","o","l">> } :
          ~Contains(k, msg_lower)
    /\ ~PythonVersionSearch(msg_lower)
    /\ ~Contains(<<"s","c","r","u","m","-">>, msg_lower)
    /\ ~(Contains(<<"h","o","w"," ","m","a","n","y">>, msg_lower) /\ Contains(<<"t","i","c","k","e","t">>, msg_lower))

\* the positions of response at which an intent name starts
NamePositions(response) ==
    { i \in 1..Len(response) :
        \E k \in DOMAIN valid_intents : StartsAt(valid_intents[k], response, i) }

\* the intent name that occurs first in response, which names one
FirstNamed(response) ==
    LET first == CHOOSE i \in NamePositions(response) :
                     \A j \in NamePositions(response) : i <= j
    IN  valid_intents[CHOOSE k \in DOMAIN valid_intents :
                          StartsAt(valid_intents[k], response, first)]

\* C13: when no override applies to the question, the intent is the intent
\* name at the earliest position of the classifier's response
C13_FirstNamedWins ==
    [][(/\ pc = "responded" /\ pc' = "classified"
        /\ NoOverride(Lower(query))
        /\ NamePositions(intent) # {}) => intent' = FirstNamed(intent)]_vars

\* the classification call answered, and its response names no intent
Unrecognized == Classified /\ ~cls_failed /\ ~found_intent

\* C14: when the classification call answers with a response that names no
\* intent and no override applies to the question, the intent is GENERAL,
\* the context is the empty string, no provider is called, and the final
\* call is made
C14_UnrecognizedIsGeneral ==
    (Unrecognized /\ NoOverride(Lower(query))) =>
        /\ intent = GENERAL
        /\ pc = "classified" => calls = <<"generate_response">>
        /\ pc = "retrieved" => (context_data = <<>> /\ calls = <<"generate_response">>)
        /\ pc = "done" =>
              /\ context_data = <<>>
              /\ calls = <<"generate_response", "generate_response">>
              /\ final_prompt = <<"U","s","e","r"," ","Q","u","e","r","y",":"," ">> \o query \o <<"\n","\n","C","O","N","T","E","X","T"," ","D","A","T","A",":","\n">>

\* an answer to "42 testing" after a response that names no intent
C14_Witness ==
    /\ Unrecognized /\ NoOverride(Lower(query))
    /\ query = <<"4","2"," ","t","e","s","t","i","n","g">>
    /\ pc = "done" /\ outcome = "returned"
    /\ intent = GENERAL
    /\ calls = <<"generate_response", "generate_response">>

\* the provider calls of the intent dispatched on, in their order
ProviderCalls ==
    CASE intent \in {DEPRECATION_GAP, BACKLOG_LIST} -> <<"get_backlog_tasks">>
      [] intent \in {JIRA_LIST, JIRA_COUNT} -> <<"get_tickets">>
      [] intent = JIRA_DETAIL -> IF key = None THEN <<>> ELSE <<"get_ticket">>
      [] intent = BACKLOG_PICKUP -> <<"get_backlog_tasks", "get_tickets">>
      [] OTHER -> <<>>

\* C15: the calls of an answer_query that returns are the classification
\* call, the provider calls of its intent, each once, and the final call,
\* in this order; at any time the first call is the classification call,
\* no call follows the final call, and no call is made twice over
C15_CallOrder ==
    /\ (pc = "done" /\ outcome = "returned") =>
          calls = <<"generate_response">> \o ProviderCalls \o <<"generate_response">>
    /\ calls # <<>> => calls[1] = "generate_response"
    /\ pc = "classified" => calls = <<"generate_response">>
    /\ \A i \in 2..Len(calls) : calls[i] = "generate_response" => i = Len(calls)
    /\ \A i, j \in 2..Len(calls) : calls[i] = calls[j] => i = j

\* an answer to a BACKLOG_PICKUP question: four calls
C15_Witness ==
    /\ pc = "done" /\ outcome = "returned"
    /\ intent = BACKLOG_PICKUP
    /\ calls = <<"generate_response", "get_backlog_tasks", "get_tickets", "generate_response">>

\* what the providers hold when this answer_query calls them
TrackerTickets == IF jira_mock_mode THEN MockTickets ELSE jira_backend.issues
FolderFiles == IF gdrive_mock_mode THEN MockBacklog ELSE drive_backend.files
Readable(i) == gdrive_mock_mode \/ i \notin drive_backend.unreadable

\* C16: nothing fetched is kept from one answer_query to the next, and an
\* answer_query whose intent needs tickets or backlog items calls the
\* provider itself and builds its context from what the provider holds at
\* that call
C16_NoCache ==
    /\ pc = "idle" =>
          /\ tickets = None /\ tasks = None /\ ticket = NoTicket
          /\ pickup_list = None /\ gap_items = None /\ context_data = None
    /\ (pc = "retrieved" /\ intent \in {JIRA_LIST, JIRA_COUNT, BACKLOG_PICKUP}) =>
          /\ \E c \in DOMAIN calls : calls[c] = "get_tickets"
          /\ \A i \in DOMAIN tickets : Listed(tickets[i], TrackerTickets)
          /\ \A i \in DOMAIN TrackerTickets :
                (target_status = None \/ TrackerTickets[i].status = target_status)
                    => Listed(TrackerTickets[i], tickets)
    /\ (pc = "retrieved" /\ intent = JIRA_DETAIL /\ key # None) =>
          /\ \E c \in DOMAIN calls : calls[c] = "get_ticket"
          /\ ticket # NoTicket => Listed(ticket, TrackerTickets)
    /\ (pc = "retrieved" /\ intent \in {DEPRECATION_GAP, BACKLOG_LIST, BACKLOG_PICKUP}) =>
          /\ \E c \in DOMAIN calls : calls[c] = "get_backlog_tasks"
          /\ \A i \in DOMAIN tasks : Listed(tasks[i], FolderFiles)
          /\ \A i \in DOMAIN FolderFiles : Readable(i) => Listed(FolderFiles[i], tasks)
    /\ (pc = "retrieved" /\ intent = JIRA_LIST) =>
          \A i \in DOMAIN TrackerTickets :
              Contains(TrackerTickets[i].key \o <<":"," ">> \o TrackerTickets[i].summary,
                       context_data)
    /\ (pc = "retrieved" /\ intent = BACKLOG_LIST) =>
          \A i \in DOMAIN FolderFiles :
              Readable(i) => Contains(FolderFiles[i].title, context_data)

\* a JIRA_LIST context built from the one issue the live tracker holds at
\* the call
C16_Witness ==
    /\ pc = "retrieved" /\ intent = JIRA_LIST
    /\ ~jira_mock_mode
    /\ Len(jira_backend.issues) = 1
    /\ tickets = jira_backend.issues
    /\ calls = <<"generate_response", "get_tickets">>
    /\ Contains(jira_backend.issues[1].summary, context_data)

\* the positions of q at which "scrum-" and a digit start
KeyPositions(q) ==
    { i \in 1..Len(q) :
        /\ StartsAt(<<"s","c","r","u","m","-">>, q, i)
        /\ i + 6 <= Len(q)
        /\ q[i + 6] \in DigitSet }

\* "SCRUM-" and the digits that follow the first "scrum-" of q that a digit
\* follows
AskedKey(q) ==
    LET d == 6 + CHOOSE i \in KeyPositions(q) : \A j \in KeyPositions(q) : i <= j
        e == CHOOSE k \in d..Len(q) :
                 /\ \A j \in d..k : q[j] \in DigitSet
                 /\ (k = Len(q) \/ q[k + 1] \notin DigitSet)
    IN  <<"S","C","R","U","M","-">> \o SubSeq(q, d, e)

\* C17: for JIRA_DETAIL, a question without "scrum-<digits>" gets the "Could
\* not identify ticket key" context and no provider call; otherwise the
\* provider is asked once, for "SCRUM-<digits>" of the first match, and the
\* context is the five fields of the ticket it returned, or "Ticket
\* SCRUM-<digits> not found." when it returned none; it returns the ticket
\* of that key when it holds one and its request is answered, and none when
\* it holds none
C17_Detail ==
    (intent = JIRA_DETAIL /\ pc = "retrieved") =>
        IF KeyPositions(Lower(query)) = {}
        THEN /\ context_data = <<"C","o","u","l","d"," ","n","o","t"," ","i","d","e","n","t","i","f","y"," ","t","i","c","k","e","t"," ","k","e","y"," ","(","S","C","R","U","M","-","X","X","X",")"," ","i","n"," ","q","u","e","r","y",".">>
             /\ calls = <<"generate_response">>
             /\ ticket = NoTicket
        ELSE /\ key = AskedKey(Lower(query))
             /\ calls = <<"generate_response", "get_ticket">>
             /\ (\A i \in DOMAIN TrackerTickets : TrackerTickets[i].key # key)
                    => ticket = NoTicket
             /\ (~jira_backend.fault /\ \E i \in DOMAIN TrackerTickets :
                                           TrackerTickets[i].key = key)
                    => (ticket # NoTicket /\ ticket.key = key
                          /\ Listed(ticket, TrackerTickets))
             /\ IF ticket = NoTicket
                THEN context_data = <<"T","i","c","k","e","t"," ">> \o key \o <<" ","n","o","t"," ","f","o","u","n","d",".">>
                ELSE context_data =
                         <<"T","i","c","k","e","t"," ","D","e","t","a","i","l","s",":","\n","K","e","y",":"," ">> \o ticket.key
                             \o <<"\n","S","u","m","m","a","r","y",":"," ">> \o ticket.summary
                             \o <<"\n","S","t","a","t","u","s",":"," ">> \o ticket.status
                             \o <<"\n","D","e","s","c","r","i","p","t","i","o","n",":"," ">> \o ticket.description
                             \o <<"\n","A","s","s","i","g","n","e","e",":"," ">>
                             \o (IF ticket.assignee = None THEN <<"N","o","n","e">>
                                 ELSE ticket.assignee)

\* "SCRUM-42 " asked of a live tracker that holds SCRUM-42
C17_Witness ==
    /\ intent = JIRA_DETAIL /\ pc = "retrieved"
    /\ key = <<"S","C","R","U","M","-","4","2">>
    /\ ticket # NoTicket
    /\ ticket.key = <<"S","C","R","U","M","-","4","2">>
    /\ ticket.assignee = <<"A","n","n">>
    /\ Contains(<<"\n","A","s","s","i","g","n","e","e",":"," ","A","n","n">>, context_data)

\* C18: once the engine is built, no step of any answer_query changes the
\* catalog: the same records in the same order
C18_CatalogReadOnly == [][boot = "loop" => deprecations' = deprecations]_vars

\* a feature search that ranks the second record of the catalog first and
\* leaves the catalog as it was loaded
C18_Witness ==
    /\ pc = "retrieved" /\ intent = DEPRECATION_INFO
    /\ match.mode = "FEATURE_SEARCH"
    /\ match.hits = <<2>>
    /\ deprecations \in Catalogs
    /\ Len(deprecations) = 2

\* C19: a connector built with a live credential never serves a ticket of
\* the fixture set, also when its connection attempt failed
C19_NoFixturesWithCredential ==
    (/\ jira_token = "live"
     /\ pc = "retrieved"
     /\ intent \in {JIRA_LIST, JIRA_COUNT, BACKLOG_PICKUP}) =>
        \A i \in DOMAIN tickets : ~Listed(tickets[i], MockTickets)
=============================================================================
